---- MODULE Spec2Model ----
(***************************************************************************)
(* Model of echemdbconverters/packager/csvpackager.py: one CSVpackager     *)
(* instance (its stored field list, its stored metadata, the column names  *)
(* of its parsed table) and the accessors a caller invokes on it: fields,  *)
(* schema, metadata and the static get_packager.                           *)
(*                                                                         *)
(* A field is a mapping from keys to values, modelled as a TLA+ record.    *)
(* The frictionless Schema used by `fields` is modelled by what the calls  *)
(* made on it do: `schema.fields` is the schema's own mutable list,        *)
(* `schema.field_names` a fresh list of each field's `name` property       *)
(* (which frictionless defaults to "field" for a descriptor without the    *)
(* key), `remove_field` deletes the first field with the given name and    *)
(* raises when there is none, `add_field` appends.                         *)
(***************************************************************************)
EXTENDS Integers, Sequences, FiniteSets, TLC

VARIABLES
    column_names,   \* self.column_names: labels of the parsed table, in order
    _fields,        \* self._fields: [given, list]; given = FALSE is None
    _metadata,      \* self._metadata
    supplied,       \* the constructor's arguments, kept for reference
    ret,            \* what the latest call returned to the caller
    firstFields     \* what the first access to `fields` returned

vars == <<column_names, _fields, _metadata, supplied, ret, firstFields>>

-----------------------------------------------------------------------------
(* Bounds and input universes *)

MaxFields == 3

GeneratedComment == "Created by echemdb-converters."

FieldUniverse ==
    { [name |-> "t"],
      [name |-> "t", unit |-> "s"],
      [name |-> "E", unit |-> "V"],
      [name |-> "x"],
      [foo |-> "bar"] }

MetadataUniverse == { <<>>, [foo |-> "bar"] }

DeviceUniverse == {"eclab", "None", "gamry"}

RECURSIVE SeqsUpTo(_, _)
SeqsUpTo(S, n) ==
    IF n = 0 THEN { <<>> }
    ELSE LET shorter == SeqsUpTo(S, n - 1)
         IN  shorter \cup { Append(s, x) : s \in shorter, x \in S }

Range(s) == { s[i] : i \in DOMAIN s }

\* The parsed tables: column labels are unique and there is at least one.
ColumnLists ==
    { <<"t">>, <<"field">>, <<"t", "E">>, <<"E", "t">>, <<"field", "t">>,
      <<"t", "E", "field">> }

FieldArguments ==
    { [given |-> FALSE, list |-> <<>>] }
        \cup { [given |-> TRUE, list |-> l] : l \in SeqsUpTo(FieldUniverse, MaxFields) }

MetadataArguments ==
    { [given |-> FALSE, map |-> <<>>] }
        \cup { [given |-> TRUE, map |-> m] : m \in MetadataUniverse }

-----------------------------------------------------------------------------
(* Sequence helpers: Python list operations *)

\* list.remove / del list[i]
RemoveAt(s, i) == [ k \in 1..(Len(s) - 1) |-> IF k < i THEN s[k] ELSE s[k + 1] ]

\* index of the first element equal to x (0 when absent), as list.remove finds it
FirstIndexOf(s, x) ==
    IF \E i \in DOMAIN s : s[i] = x
    THEN CHOOSE i \in DOMAIN s : s[i] = x /\ \A j \in 1..(i - 1) : s[j] # x
    ELSE 0

\* list.remove(x): removes the first element equal to x
ListRemove(s, x) == RemoveAt(s, FirstIndexOf(s, x))

-----------------------------------------------------------------------------
(* create_field / create_fields *)

\* (variant without the comment)
create_field_bare(name) == [name |-> name]

create_field(name) == [name |-> name, comment |-> GeneratedComment]

create_fields(cols) == [ i \in DOMAIN cols |-> create_field(cols[i]) ]

-----------------------------------------------------------------------------
(* The frictionless Field / Schema calls made by `fields` *)

HasName(f) == "name" \in DOMAIN f

\* Field.name: the descriptor's `name`, or frictionless' default when absent
DefaultFieldName == "field"

FieldName(f) == IF HasName(f) THEN f.name ELSE DefaultFieldName

\* schema.field_names: a new list holding the name of every field, in order
field_names(l) == [ i \in DOMAIN l |-> FieldName(l[i]) ]

\* (variant matching on the descriptor's own `name` key only)
get_field_raw(l, name) ==
    IF \E i \in DOMAIN l : HasName(l[i]) /\ l[i].name = name
    THEN CHOOSE i \in DOMAIN l :
            /\ HasName(l[i]) /\ l[i].name = name
            /\ \A j \in 1..(i - 1) : ~(HasName(l[j]) /\ l[j].name = name)
    ELSE 0

\* Schema.get_field: position of the first field with that name, 0 if none
get_field(l, name) ==
    IF \E i \in DOMAIN l : FieldName(l[i]) = name
    THEN CHOOSE i \in DOMAIN l :
            /\ FieldName(l[i]) = name
            /\ \A j \in 1..(i - 1) : FieldName(l[j]) # name
    ELSE 0

\* Schema.remove_field: get_field raises when no field has the name, else the
\* field found is removed from the schema's list with list.remove
remove_field(l, name) ==
    IF get_field(l, name) = 0
    THEN [status |-> "raise", list |-> l]
    ELSE [status |-> "ok", list |-> ListRemove(l, l[get_field(l, name)])]

\* Schema.add_field
add_field(l, f) == Append(l, f)

-----------------------------------------------------------------------------
(* CSVpackager.fields, lines 142-171 *)

\* Lines 152-158: `for field in schema.fields` walks the schema's list by
\* position while the body removes from that same list; i is the iterator's
\* position (1-based), advanced after every element whether or not it was
\* removed.
RECURSIVE RemoveNameless(_, _)
RemoveNameless(l, i) ==
    IF i > Len(l) THEN l
    ELSE IF ~HasName(l[i]) THEN RemoveNameless(ListRemove(l, l[i]), i + 1)
    ELSE RemoveNameless(l, i + 1)

\* Lines 161-163: walks the list of names taken before the loop; every name
\* that is no column name is handed to remove_field. A raise ends the loop.
\* (variant that leaves the list as it is)
RemoveStaleSkipped(l, names, k, cols) == [status |-> "ok", list |-> l]

RECURSIVE RemoveStale(_, _, _, _)
RemoveStale(l, names, k, cols) ==
    IF k > Len(names) THEN [status |-> "ok", list |-> l]
    ELSE IF names[k] \notin Range(cols)
         THEN LET r == remove_field(l, names[k])
              IN  IF r.status = "raise" THEN r
                  ELSE RemoveStale(r.list, names, k + 1, cols)
         ELSE RemoveStale(l, names, k + 1, cols)

\* Lines 166-169: a generated field is appended for every column name that
\* is not among the schema's field names at that moment.
\* (variant walking the columns from the last to the first)
RECURSIVE AddMissingBackwards(_, _, _)
AddMissingBackwards(l, cols, k) ==
    IF k > Len(cols) THEN l
    ELSE LET c == cols[Len(cols) + 1 - k]
         IN  IF c \notin Range(field_names(l))
             THEN AddMissingBackwards(add_field(l, create_field(c)), cols, k + 1)
             ELSE AddMissingBackwards(l, cols, k + 1)

RECURSIVE AddMissing(_, _, _)
AddMissing(l, cols, k) ==
    IF k > Len(cols) THEN l
    ELSE IF cols[k] \notin Range(field_names(l))
         THEN AddMissing(add_field(l, create_field(cols[k])), cols, k + 1)
         ELSE AddMissing(l, cols, k + 1)

\* (variant in which the loops work on the stored list itself)
FieldsAfterAccessAliased(stored, work) == [given |-> TRUE, list |-> work]

\* Line 148: the schema is built from a new list of new Field objects, so the
\* loops work on that list and the stored list keeps its entries.
FieldsAfterAccess(stored, work) == stored

\* Line 142
NoFieldsGiven(fs) == ~fs.given \/ fs.list = <<>>

\* The whole property: what it returns (or that it raised) and the stored
\* list afterwards
Reconcile(fs, cols) ==
    IF NoFieldsGiven(fs)
    THEN [status |-> "ok", val |-> create_fields(cols), stored |-> fs]
    ELSE LET named == RemoveNameless(fs.list, 1)
             kept  == RemoveStale(named, field_names(named), 1, cols)
         IN  IF kept.status = "raise"
             THEN [status |-> "raise", val |-> <<>>,
                   stored |-> FieldsAfterAccess(fs, kept.list)]
             ELSE LET done == AddMissing(kept.list, cols, 1)
                  IN  [status |-> "ok", val |-> done,
                       stored |-> FieldsAfterAccess(fs, done)]

-----------------------------------------------------------------------------
(* CSVpackager.metadata, lines 173-204, and what a caller does with it *)

EmptyMap == <<>>

MetaKeys == {"foo"}

MetaValues == {"bar", "v"}

\* (variant handing out the stored mapping itself)
metadata_stored(md) == [val |-> md, shared |-> TRUE]

\* Line 204: dict.copy() is a new mapping with the same top-level items;
\* shared says whether the returned object is the stored one.
metadata(md) == [val |-> md, shared |-> FALSE]

\* d[k] = v on a mapping (adds the key or replaces its value)
MapSet(m, k, v) == [ x \in DOMAIN m \cup {k} |-> IF x = k THEN v ELSE m[x] ]

\* del d[k]
MapDel(m, k) == [ x \in DOMAIN m \ {k} |-> m[x] ]

-----------------------------------------------------------------------------
(* CSVpackager.get_packager, lines 206-235 *)

\* (variant falling back to the generic packager when no device is named)
get_packager_default(device) ==
    IF device = "eclab" THEN [status |-> "ok", val |-> <<"ECLabPackager">>]
    ELSE IF device = "None" THEN [status |-> "ok", val |-> <<"CSVpackager">>]
    ELSE [status |-> "KeyError",
          val |-> <<"Device wth name '", device, "' is unknown to the packager'.">>]

\* The KeyError's message is kept as its three pieces, the middle one being
\* the formatted device; None formats as "None".
get_packager(device) ==
    IF device = "eclab" THEN [status |-> "ok", val |-> <<"ECLabPackager">>]
    ELSE [status |-> "KeyError",
          val |-> <<"Device wth name '", device, "' is unknown to the packager'.">>]

-----------------------------------------------------------------------------
(* The instance and its callers *)

\* ret: op names the call, arg its argument, status "ok" or the exception,
\* val the value returned, shared whether val is the stored object itself,
\* repeat whether the call follows an earlier `fields` access (for fields and
\* schema) or a caller's change to a mapping handed out before (for metadata).
NoReturn ==
    [op |-> "none", arg |-> "", status |-> "ok", val |-> <<>>, shared |-> FALSE,
     repeat |-> FALSE]

\* __init__, lines 79-82
Init ==
    /\ column_names \in ColumnLists
    /\ \E fs \in FieldArguments, md \in MetadataArguments :
         /\ _fields = fs
         /\ _metadata = (IF md.given /\ md.map # EmptyMap THEN md.map ELSE EmptyMap)
         /\ supplied = [fields |-> fs, metadata |-> md]
    /\ ret = NoReturn
    /\ firstFields = [set |-> FALSE, val |-> <<>>]

\* csv.fields
AccessFields ==
    \E r \in {Reconcile(_fields, column_names)} :
        /\ ret' = [op |-> "fields", arg |-> "", status |-> r.status,
                   val |-> r.val, shared |-> FALSE, repeat |-> firstFields.set]
        /\ _fields' = r.stored
        /\ firstFields' = IF firstFields.set THEN firstFields
                          ELSE [set |-> TRUE, val |-> [status |-> r.status, val |-> r.val]]
        /\ UNCHANGED <<column_names, _metadata, supplied>>

\* csv.schema, lines 362-392: Schema(fields=self.fields); val is the field
\* list of the schema returned
AccessSchema ==
    \E r \in {Reconcile(_fields, column_names)} :
        /\ ret' = [op |-> "schema", arg |-> "", status |-> r.status,
                   val |-> r.val, shared |-> FALSE, repeat |-> firstFields.set]
        /\ _fields' = r.stored
        /\ UNCHANGED <<column_names, _metadata, supplied, firstFields>>

\* csv.metadata
AccessMetadata ==
    LET r == metadata(_metadata)
    IN  /\ ret' = [op |-> "metadata", arg |-> "", status |-> "ok",
                   val |-> r.val, shared |-> r.shared,
                   repeat |-> (ret.op = "metadata-changed")]
        /\ UNCHANGED <<column_names, _fields, _metadata, supplied, firstFields>>

\* The caller adds or replaces a top-level key of the mapping it was handed
CallerSetsKey ==
    /\ ret.op \in {"metadata", "metadata-changed"}
    /\ \E k \in MetaKeys, v \in MetaValues :
         /\ (k \in DOMAIN ret.val => ret.val[k] # v)
         /\ ret' = [ret EXCEPT !.op = "metadata-changed", !.val = MapSet(ret.val, k, v)]
         /\ _metadata' = IF ret.shared THEN MapSet(ret.val, k, v) ELSE _metadata
    /\ UNCHANGED <<column_names, _fields, supplied, firstFields>>

\* The caller removes a top-level key of the mapping it was handed
CallerDeletesKey ==
    /\ ret.op \in {"metadata", "metadata-changed"}
    /\ \E k \in DOMAIN ret.val :
         /\ ret' = [ret EXCEPT !.op = "metadata-changed", !.val = MapDel(ret.val, k)]
         /\ _metadata' = IF ret.shared THEN MapDel(ret.val, k) ELSE _metadata
    /\ UNCHANGED <<column_names, _fields, supplied, firstFields>>

\* CSVpackager.get_packager(device)
GetPackager ==
    /\ \E device \in DeviceUniverse :
         LET r == get_packager(device)
         IN  ret' = [op |-> "get_packager", arg |-> device, status |-> r.status,
                     val |-> r.val, shared |-> FALSE, repeat |-> FALSE]
    /\ UNCHANGED <<column_names, _fields, _metadata, supplied, firstFields>>

Next ==
    \/ AccessFields
    \/ AccessSchema
    \/ AccessMetadata
    \/ CallerSetsKey
    \/ CallerDeletesKey
    \/ GetPackager

Spec == Init /\ [][Next]_vars

-----------------------------------------------------------------------------
(* Vocabulary of the properties *)

SuppliedList == supplied.fields.list

ListSupplied == ~NoFieldsGiven(supplied.fields)

SuppliedMetadata ==
    IF supplied.metadata.given THEN supplied.metadata.map ELSE EmptyMap

\* `fields` or `schema` has just returned a field list
FieldsReturned == ret.op \in {"fields", "schema"} /\ ret.status = "ok"

InColumns(f) == HasName(f) /\ f.name \in Range(column_names)

Stale(f) == HasName(f) /\ f.name \notin Range(column_names)

\* The user-supplied entries that are named with a column name, in their order
Survivors == SelectSeq(SuppliedList, InColumns)

\* The generated fields for the columns no survivor names, in column order
Generated ==
    LET unmatched(c) == \A i \in DOMAIN Survivors : Survivors[i].name # c
        cols == SelectSeq(column_names, unmatched)
    IN  [ i \in DOMAIN cols |-> [name |-> cols[i], comment |-> GeneratedComment] ]

\* s is a leading part of t
IsPrefix(s, t) == Len(s) <= Len(t) /\ \A i \in DOMAIN s : s[i] = t[i]

-----------------------------------------------------------------------------
(* Properties *)

\* C1: with a non-empty field list supplied, the list returned by `fields`
\* holds no nameless entry: every returned field has a `name` key and no
\* key/value pair of a supplied nameless entry occurs in any returned field.
C1_NoNamelessReturned ==
    (FieldsReturned /\ ListSupplied) =>
        /\ \A i \in DOMAIN ret.val : HasName(ret.val[i])
        /\ \A j \in DOMAIN SuppliedList : ~HasName(SuppliedList[j]) =>
             \A i \in DOMAIN ret.val : \A k \in DOMAIN SuppliedList[j] :
                ~(k \in DOMAIN ret.val[i] /\ ret.val[i][k] = SuppliedList[j][k])

\* C2: with a field list supplied, the result is the surviving user entries
\* (named, with a column name) in their original order, followed by one
\* generated field per column no survivor matches, in column order.
C2_SurvivorsThenGenerated ==
    (FieldsReturned /\ ListSupplied) => ret.val = Survivors \o Generated

\* C3: with a field list supplied, no entry whose name is not a column name
\* is in the result, however many there are and whether or not they share a
\* name; the entries whose name is a column name are kept, unchanged and in
\* order, at the front of the named fields of the result.
C3_StaleDroppedOthersKept ==
    (FieldsReturned /\ ListSupplied) =>
        /\ \A j \in DOMAIN SuppliedList : Stale(SuppliedList[j]) =>
             \A i \in DOMAIN ret.val : ret.val[i] # SuppliedList[j]
        /\ \A i \in DOMAIN ret.val : ~Stale(ret.val[i])
        /\ IsPrefix(Survivors, SelectSeq(ret.val, HasName))

C3_Witness ==
    /\ FieldsReturned
    /\ column_names = <<"t", "E">>
    /\ SuppliedList = << [name |-> "x"], [name |-> "t", unit |-> "s"], [name |-> "x"] >>
    /\ ret.val = << [name |-> "t", unit |-> "s"],
                    [name |-> "E", comment |-> GeneratedComment] >>

\* C4: with no field list (None or an empty list), `fields` returns exactly
\* one generated field per column, in column order, each holding only the
\* column's name and the generated-marker comment.
C4_GeneratedPerColumn ==
    (FieldsReturned /\ ~ListSupplied) =>
        /\ Len(ret.val) = Len(column_names)
        /\ \A i \in DOMAIN ret.val :
             ret.val[i] = [name |-> column_names[i], comment |-> GeneratedComment]

C4_Witness ==
    /\ ret.op = "fields" /\ ret.status = "ok"
    /\ supplied.fields.given /\ SuppliedList = <<>>
    /\ column_names = <<"t", "E", "field">>
    /\ Len(ret.val) = 3

\* C5: whatever accesses came before, the stored field list is the one given
\* to the constructor, and every access to `fields` returns what the first
\* access returned.
C5_ReconciliationIdempotent ==
    /\ _fields = supplied.fields
    /\ (ret.op = "fields" /\ firstFields.set) =>
          firstFields.val = [status |-> ret.status, val |-> ret.val]

C5_Witness ==
    /\ ret.op = "fields" /\ ret.repeat
    /\ ListSupplied
    /\ ret.val # SuppliedList

C7_NamesDistinctColumnNames ==
    FieldsReturned =>
        /\ \A i \in DOMAIN ret.val : HasName(ret.val[i]) =>
             ret.val[i].name \in Range(column_names)
        /\ \A i, j \in DOMAIN ret.val :
             (i # j /\ HasName(ret.val[i]) /\ HasName(ret.val[j])) =>
                ret.val[i].name # ret.val[j].name

\* C8 as stated: the i-th returned field is named by the i-th column, whether
\* the fields were generated or supplied by the caller. It is taken on the
\* supplied lists whose entries are all named, with pairwise distinct names,
\* so that neither a nameless nor a duplicate entry stands in the result.
C8_FieldOrderIsColumnOrder ==
    (/\ FieldsReturned
     /\ \A j \in DOMAIN SuppliedList : HasName(SuppliedList[j])
     /\ \A i, j \in DOMAIN SuppliedList :
          i # j => SuppliedList[i].name # SuppliedList[j].name)
    => /\ Len(ret.val) = Len(column_names)
       /\ \A i \in DOMAIN ret.val :
            HasName(ret.val[i]) /\ ret.val[i].name = column_names[i]

\* C8 (amended): the i-th returned field is named by the i-th column when no
\* field list was supplied, or when the supplied entries are all named and
\* their names are, in order, the leading column names.
C8_ColumnOrderWhenListLeadsColumns ==
    (/\ FieldsReturned
     /\ \/ ~ListSupplied
        \/ /\ \A j \in DOMAIN SuppliedList : HasName(SuppliedList[j])
           /\ IsPrefix([ j \in DOMAIN SuppliedList |-> SuppliedList[j].name ],
                       column_names))
    => /\ Len(ret.val) = Len(column_names)
       /\ \A i \in DOMAIN ret.val :
            HasName(ret.val[i]) /\ ret.val[i].name = column_names[i]

C8_Witness ==
    /\ ret.op = "schema" /\ ret.status = "ok"
    /\ column_names = <<"t", "E", "field">>
    /\ SuppliedList = << [name |-> "t", unit |-> "s"] >>
    /\ Len(ret.val) = 3

\* C9: get_packager returns the EC-Lab packager for "eclab" and raises a
\* KeyError whose message names the identifier for anything else, the
\* default included.
C9_GetPackager ==
    ret.op = "get_packager" =>
        IF ret.arg = "eclab"
        THEN ret.status = "ok" /\ ret.val = <<"ECLabPackager">>
        ELSE ret.status = "KeyError" /\ Len(ret.val) = 3 /\ ret.val[2] = ret.arg

C9_Witness ==
    ret.op = "get_packager" /\ ret.arg = "None" /\ ret.status = "KeyError"

\* C10: `metadata` returns a mapping equal to the one given to the
\* constructor (empty when none was given) that is not the stored object, and
\* the stored mapping stays equal to it whatever a caller does to the top-level
\* keys of a mapping returned earlier.
C10_MetadataFreshCopy ==
    /\ _metadata = SuppliedMetadata
    /\ ret.op = "metadata" => (ret.val = SuppliedMetadata /\ ~ret.shared)

C10_Witness ==
    /\ ret.op = "metadata" /\ ret.repeat
    /\ supplied.metadata.given /\ ret.val = [foo |-> "bar"]

====
